---- MODULE Spec2Model ----
(***************************************************************************)
(* Model of src/components/AssetPreviewNode.tsx: one preview slot          *)
(* (PreviewInstanceRow) of the Asset Preview node.  The slot reads a       *)
(* payload from the store registries, re-broadcasts it under               *)
(* preview-out-<index>, and composites its layer tree into a preview       *)
(* image (camera origin, layer resolution, paint traversal).               *)
(*                                                                         *)
(* Conventions.                                                            *)
(*  - An optional value (undefined / null in the source) is the record     *)
(*    Absent; Present(v) tells the two apart.                              *)
(*  - `children` of a node is a sequence; hasChildren says whether the     *)
(*    property is there at all (an empty array is a truthy value in JS,    *)
(*    so `if (l.children)` is hasChildren, not Len(children) > 0).         *)
(*  - The camera origin is a rational with denominator 2 (the code         *)
(*    divides an integer by 2); it is kept exactly as its double, in the   *)
(*    fields/operators whose names end in 2 (originX2 = 2 * originX).      *)
(*  - The output surface is the sequence of per-leaf paint operations in   *)
(*    the order they are issued; later operations paint over earlier.      *)
(***************************************************************************)
EXTENDS Integers, Sequences, FiniteSets, TLC

VARIABLES
    mounted,          \* the slot's effects have run at least once
    viewMode,         \* useState 'PROCEDURAL' | 'POLISHED'
    autoFrame,        \* useState boolean
    localPreview,     \* useState: the preview image, or Absent (null)
    inputEdge,        \* an edge into payload-in-<index> exists
    payloadRegistry,  \* payloadRegistry[edge.source][edge.sourceHandle]
    reviewerRegistry, \* reviewerRegistry[edge.source][edge.sourceHandle]
    psdRegistry,      \* sequence of [key, psd] in insertion order
    templateRegistry, \* sequence of templates in insertion order
    previewOut,       \* reviewerRegistry[nodeId]["preview-out-<index>"]
    previewSource     \* history: the payload localPreview was rendered from

vars == <<mounted, viewMode, autoFrame, localPreview, inputEdge,
          payloadRegistry, reviewerRegistry, psdRegistry, templateRegistry,
          previewOut, previewSource>>

----------------------------------------------------------------------------
(* Bounds of the model *)

MaxNodes == 3

MaxDocNodes == 2

MaxTemplates == 2

MaxContainers == 3

----------------------------------------------------------------------------
(* Values *)

Absent == [absent |-> TRUE]

Present(v) == v # Absent

EdgeSource == "upstream"

\* Extended numbers for the scan accumulators (Infinity, -Infinity, finite).
PosInfinity == [inf |-> 1, v |-> 0]

NegInfinity == [inf |-> -1, v |-> 0]

Fin(n) == [inf |-> 0, v |-> n]

Less(a, b) == \/ a.inf < b.inf
              \/ a.inf = 0 /\ b.inf = 0 /\ a.v < b.v

\* String.prototype.toLowerCase on a string kept as a sequence of characters.
LowerChar(c) ==
    CASE c = "H" -> "h"
      [] c = "E" -> "e"
      [] c = "R" -> "r"
      [] c = "O" -> "o"
      [] c = "S" -> "s"
      [] c = "I" -> "i"
      [] c = "D" -> "d"
      [] OTHER -> c

toLowerCase(s) == [i \in 1..Len(s) |-> LowerChar(s[i])]

----------------------------------------------------------------------------
(* Helpers of the component *)

\* countDeepLeaves: `if (l.children)` tests that the property is present.
RECURSIVE countDeepLeaves(_)
countDeepLeaves(layers) ==
    IF layers = <<>> THEN 0
    ELSE LET l == Head(layers)
         IN (IF l.hasChildren THEN countDeepLeaves(l.children) ELSE 1)
            + countDeepLeaves(Tail(layers))

\* findLayerByName without the descent into child.children.
RECURSIVE findLayerByNameShallow(_, _, _)
findLayerByNameShallow(children, i, name) ==
    IF i > Len(children) THEN Absent
    ELSE IF children[i].name = name THEN children[i]
    ELSE findLayerByNameShallow(children, i + 1, name)

\* findLayerByName: pre-order, first node whose name is equal.
RECURSIVE findLayerByNameFrom(_, _, _)
findLayerByNameFrom(children, i, name) ==
    IF i > Len(children) THEN Absent
    ELSE LET child == children[i]
         IN IF child.name = name THEN child
            ELSE LET found == IF child.hasChildren
                              THEN findLayerByNameFrom(child.children, 1, name)
                              ELSE Absent
                 IN IF Present(found) THEN found
                    ELSE findLayerByNameFrom(children, i + 1, name)

findLayerByName(hasChildren, children, name) ==
    IF ~hasChildren THEN Absent
    ELSE findLayerByNameFrom(children, 1, name)

\* findLayerByPath (services/psdService): exact identifier lookup in the
\* document's node tree.
RECURSIVE findLayerByPathFrom(_, _, _)
findLayerByPathFrom(children, i, id) ==
    IF i > Len(children) THEN Absent
    ELSE LET child == children[i]
         IN IF child.id = id THEN child
            ELSE LET found == IF child.hasChildren
                              THEN findLayerByPathFrom(child.children, 1, id)
                              ELSE Absent
                 IN IF Present(found) THEN found
                    ELSE findLayerByPathFrom(children, i + 1, id)

findLayerByPath(psd, id) ==
    IF ~psd.hasChildren THEN Absent
    ELSE findLayerByPathFrom(psd.children, 1, id)

----------------------------------------------------------------------------
(* 1. Resolve inputs (values derived on every render of the component) *)

polishedPayload(edge, reviewer) ==
    IF edge /\ Present(reviewer) THEN reviewer ELSE Absent

proceduralPayload(edge, reviewer, payload) ==
    LET polished == polishedPayload(edge, reviewer)
    IN IF ~Present(polished) /\ edge /\ Present(payload) THEN payload
       ELSE IF ~Present(polished) THEN Absent
       ELSE \* fallback: the procedural payload of the same container
            IF /\ polished.sourceNodeId = EdgeSource
               /\ Present(payload)
               /\ payload.targetContainer = polished.targetContainer
            THEN payload ELSE Absent

isPolishedAvailable(edge, reviewer) ==
    LET polished == polishedPayload(edge, reviewer)
    IN Present(polished) /\ polished.isPolished

effectiveMode(mode, edge, reviewer) ==
    IF mode = "POLISHED" /\ isPolishedAvailable(edge, reviewer)
    THEN "POLISHED" ELSE "PROCEDURAL"

\* displayPayload taking the procedural payload whenever the effective
\* mode is PROCEDURAL.
displayPayloadOfMode(mode, edge, reviewer, payload) ==
    IF effectiveMode(mode, edge, reviewer) = "POLISHED"
    THEN polishedPayload(edge, reviewer)
    ELSE proceduralPayload(edge, reviewer, payload)

displayPayload(mode, edge, reviewer, payload) ==
    LET polished == polishedPayload(edge, reviewer)
    IN IF effectiveMode(mode, edge, reviewer) = "POLISHED" THEN polished
       ELSE IF Present(polished) THEN polished
       ELSE proceduralPayload(edge, reviewer, payload)

leafCount(dp) ==
    IF ~Present(dp) THEN 0 ELSE countDeepLeaves(dp.layers)

----------------------------------------------------------------------------
(* 5. The compositor *)

\* BINARY RECOVERY LOGIC: the document registered under the payload's
\* sourceNodeId, else the first registered document, else none.
RECURSIVE psdLookup(_, _, _)
psdLookup(registry, i, key) ==
    IF i > Len(registry) THEN Absent
    ELSE IF registry[i].key = key THEN registry[i].psd
    ELSE psdLookup(registry, i + 1, key)

sourcePsdOf(registry, dp) ==
    LET direct == psdLookup(registry, 1, dp.sourceNodeId)
    IN IF Present(direct) THEN direct
       ELSE IF Len(registry) > 0 THEN registry[1].psd
       ELSE Absent

\* scanBounds: the four accumulators over visible nodes; the children of an
\* invisible node are not entered.
scanNode(acc, l) ==
    [minX |-> IF Less(Fin(l.coords.x), acc.minX) THEN Fin(l.coords.x) ELSE acc.minX,
     minY |-> IF Less(Fin(l.coords.y), acc.minY) THEN Fin(l.coords.y) ELSE acc.minY,
     maxX |-> IF Less(acc.maxX, Fin(l.coords.x + l.coords.w))
              THEN Fin(l.coords.x + l.coords.w) ELSE acc.maxX,
     maxY |-> IF Less(acc.maxY, Fin(l.coords.y + l.coords.h))
              THEN Fin(l.coords.y + l.coords.h) ELSE acc.maxY]

\* scanBounds without the isVisible test.
RECURSIVE scanBoundsOfAll(_, _)
scanBoundsOfAll(layers, acc) ==
    IF layers = <<>> THEN acc
    ELSE LET l == Head(layers)
             here == IF l.hasChildren
                     THEN scanBoundsOfAll(l.children, scanNode(acc, l))
                     ELSE scanNode(acc, l)
         IN scanBoundsOfAll(Tail(layers), here)

RECURSIVE scanBounds(_, _)
scanBounds(layers, acc) ==
    IF layers = <<>> THEN acc
    ELSE LET l == Head(layers)
             here == IF l.isVisible
                     THEN IF l.hasChildren
                          THEN scanBounds(l.children, scanNode(acc, l))
                          ELSE scanNode(acc, l)
                     ELSE acc
         IN scanBounds(Tail(layers), here)

contentBounds(dp) ==
    LET start == [minX |-> PosInfinity, minY |-> PosInfinity,
                  maxX |-> NegInfinity, maxY |-> NegInfinity]
    IN IF Len(dp.layers) > 0 THEN scanBounds(dp.layers, start) ELSE start

\* findContainer comparing the names as they are.
RECURSIVE findContainerExact(_, _, _)
findContainerExact(containers, j, target) ==
    IF j > Len(containers) THEN Absent
    ELSE IF containers[j].name = target THEN containers[j]
    ELSE findContainerExact(containers, j + 1, target)

\* tmpl.containers.find(c => c.name.toLowerCase() === target.toLowerCase())
RECURSIVE findContainer(_, _, _)
findContainer(containers, j, target) ==
    IF j > Len(containers) THEN Absent
    ELSE IF toLowerCase(containers[j].name) = toLowerCase(target)
    THEN containers[j]
    ELSE findContainer(containers, j + 1, target)

\* Strict Template Metadata Lookup: first template that has such a
\* container; (0,0) when none has.
RECURSIVE strictOrigin(_, _, _)
strictOrigin(templates, i, target) ==
    IF i > Len(templates) THEN [x2 |-> 0, y2 |-> 0]
    ELSE LET container == findContainer(templates[i].containers, 1, target)
         IN IF Present(container)
            THEN [x2 |-> 2 * container.bounds.x, y2 |-> 2 * container.bounds.y]
            ELSE strictOrigin(templates, i + 1, target)

\* 2. Determine Camera Origin (doubled).
cameraOrigin(dp, frame, templates) ==
    LET b == contentBounds(dp)
        w == dp.metrics.target.w
        h == dp.metrics.target.h
    IN IF frame /\ b.minX # PosInfinity
       THEN LET contentW == b.maxX.v - b.minX.v
                contentH == b.maxY.v - b.minY.v
            IN [x2 |-> 2 * b.minX.v + (contentW - w),
                y2 |-> 2 * b.minY.v + (contentH - h)]
       ELSE strictOrigin(templates, 1, dp.targetContainer)

----------------------------------------------------------------------------
(* D. Flattened render traversal *)

\* What one visible leaf paints.  The result is the paint operation and
\* whether an exception leaves the leaf's code (none does: the only call
\* that can throw, drawImage, is inside try/catch).
paintOp(outcome, layer, originX2, originY2, canvas) ==
    [outcome |-> outcome, id |-> layer.id, name |-> layer.name,
     x2 |-> 2 * layer.coords.x - originX2,
     y2 |-> 2 * layer.coords.y - originY2,
     w |-> layer.coords.w, h |-> layer.coords.h,
     canvas |-> canvas]

\* drawLeaf with the drawImage call outside any try/catch.
drawLeafUncaught(layer, sourcePsd, originX2, originY2) ==
    IF layer.type = "generative"
    THEN [op |-> paintOp("placeholder", layer, originX2, originY2, Absent),
          thrown |-> FALSE]
    ELSE IF Present(sourcePsd)
    THEN LET byPath == findLayerByPath(sourcePsd, layer.id)
             originalLayer ==
                 IF Present(byPath) THEN byPath
                 ELSE findLayerByName(sourcePsd.hasChildren,
                                      sourcePsd.children, layer.name)
         IN IF Present(originalLayer) /\ Present(originalLayer.canvas)
            THEN LET srcCanvas == originalLayer.canvas
                 IN IF srcCanvas.width > 0 /\ srcCanvas.height > 0
                    THEN [op |-> paintOp("drawn", layer, originX2, originY2,
                                         srcCanvas),
                          thrown |-> ~srcCanvas.readable]
                    ELSE [op |-> paintOp("empty-source", layer, originX2,
                                         originY2, srcCanvas),
                          thrown |-> FALSE]
            ELSE [op |-> paintOp("missing-pixels", layer, originX2, originY2,
                                 Absent),
                  thrown |-> FALSE]
    ELSE [op |-> paintOp("missing-source", layer, originX2, originY2, Absent),
          thrown |-> FALSE]

drawLeaf(layer, sourcePsd, originX2, originY2) ==
    IF layer.type = "generative"
    THEN [op |-> paintOp("placeholder", layer, originX2, originY2, Absent),
          thrown |-> FALSE]
    ELSE IF Present(sourcePsd)
    THEN LET byPath == findLayerByPath(sourcePsd, layer.id)
             originalLayer ==
                 IF Present(byPath) THEN byPath
                 ELSE findLayerByName(sourcePsd.hasChildren,
                                      sourcePsd.children, layer.name)
         IN IF Present(originalLayer) /\ Present(originalLayer.canvas)
            THEN LET srcCanvas == originalLayer.canvas
                 IN IF srcCanvas.width > 0 /\ srcCanvas.height > 0
                    THEN IF srcCanvas.readable
                         THEN [op |-> paintOp("drawn", layer, originX2,
                                              originY2, srcCanvas),
                               thrown |-> FALSE]
                         ELSE \* drawImage throws; caught
                              [op |-> paintOp("draw-fault", layer, originX2,
                                              originY2, srcCanvas),
                               thrown |-> FALSE]
                    ELSE [op |-> paintOp("empty-source", layer, originX2,
                                         originY2, srcCanvas),
                          thrown |-> FALSE]
            ELSE [op |-> paintOp("missing-pixels", layer, originX2, originY2,
                                 Absent),
                  thrown |-> FALSE]
    ELSE [op |-> paintOp("missing-source", layer, originX2, originY2, Absent),
          thrown |-> FALSE]

\* drawLayers: the paint operations issued for layers[i..], after `done`.
\* An exception leaving a leaf ends the whole traversal (nothing outside
\* the leaf's try/catch catches).
\* drawLayers with the loop running from the last index down to the first.
RECURSIVE drawLayersFromLast(_, _, _, _, _, _)
drawLayersFromLast(layers, i, sourcePsd, originX2, originY2, done) ==
    IF done.thrown \/ i > Len(layers) THEN done
    ELSE LET layer == layers[Len(layers) + 1 - i]
             after ==
                 IF layer.isVisible
                 THEN IF layer.hasChildren /\ Len(layer.children) > 0
                      THEN drawLayersFromLast(layer.children, 1, sourcePsd,
                                              originX2, originY2, done)
                      ELSE LET r == drawLeaf(layer, sourcePsd, originX2, originY2)
                           IN [ops |-> Append(done.ops, r.op),
                               thrown |-> r.thrown]
                 ELSE done
         IN drawLayersFromLast(layers, i + 1, sourcePsd, originX2, originY2,
                               after)

RECURSIVE drawLayersFrom(_, _, _, _, _, _)
drawLayersFrom(layers, i, sourcePsd, originX2, originY2, done) ==
    IF done.thrown \/ i > Len(layers) THEN done
    ELSE LET layer == layers[i]
             after ==
                 IF layer.isVisible
                 THEN IF layer.hasChildren /\ Len(layer.children) > 0
                      THEN drawLayersFrom(layer.children, 1, sourcePsd,
                                          originX2, originY2, done)
                      ELSE LET r == drawLeaf(layer, sourcePsd, originX2, originY2)
                           IN [ops |-> Append(done.ops, r.op),
                               thrown |-> r.thrown]
                 ELSE done
         IN drawLayersFrom(layers, i + 1, sourcePsd, originX2, originY2, after)

drawLayers(layers, sourcePsd, originX2, originY2) ==
    drawLayersFrom(layers, 1, sourcePsd, originX2, originY2,
                   [ops |-> <<>>, thrown |-> FALSE])

\* rendersSurface without the test of w and h.
rendersSurfaceOfAnySize(dp) == Present(dp)

\* Whether the compositor effect goes past its early returns for dp.
rendersSurface(dp) ==
    /\ Present(dp)
    /\ ~(dp.metrics.target.w = 0 \/ dp.metrics.target.h = 0)

\* The compositor effect up to canvas.toDataURL: the image it hands to
\* setLocalPreview, and whether an exception ended the effect before that.
\* (A freshly created canvas always yields a 2d context.)
composite(dp, registry, templates, frame) ==
    LET sourcePsd == sourcePsdOf(registry, dp)
        origin == cameraOrigin(dp, frame, templates)
        drawn == drawLayers(dp.layers, sourcePsd, origin.x2, origin.y2)
    IN [thrown |-> drawn.thrown,
        image |-> [w |-> dp.metrics.target.w, h |-> dp.metrics.target.h,
                   originX2 |-> origin.x2, originY2 |-> origin.y2,
                   ops |-> drawn.ops, autoCenter |-> frame]]

\* The value of localPreview after the compositor effect has run.
compositorEffect(dp, registry, templates, frame, preview) ==
    IF ~rendersSurface(dp) THEN preview
    ELSE LET c == composite(dp, registry, templates, frame)
         IN IF c.thrown THEN preview ELSE c.image

\* The payload the held preview was rendered from, after the effect.
compositorSource(dp, registry, templates, frame, source) ==
    IF ~rendersSurface(dp) THEN source
    ELSE IF composite(dp, registry, templates, frame).thrown THEN source
    ELSE dp

\* 4. Broadcast Selection: registerReviewerPayload(nodeId, preview-out, dp).
broadcastEffect(dp, registered) ==
    IF Present(dp) THEN dp ELSE registered

----------------------------------------------------------------------------
(* Trees of nodes (layer trees and document trees) *)

\* The paths of all nodes: a path is the sequence of child indices from the
\* top-level sequence down to the node.
RECURSIVE NodePaths(_)
NodePaths(nodes) ==
    UNION { {<<i>>} \cup { <<i>> \o q : q \in NodePaths(nodes[i].children) }
            : i \in 1..Len(nodes) }

RECURSIVE NodeAt(_, _)
NodeAt(nodes, path) ==
    IF Len(path) = 1 THEN nodes[path[1]]
    ELSE NodeAt(nodes[path[1]].children, Tail(path))

\* The tree with node n added as the last child of the node at path
\* (as the last top-level node when path is empty).
RECURSIVE AppendAt(_, _, _)
AppendAt(nodes, path, n) ==
    IF path = <<>> THEN Append(nodes, n)
    ELSE [nodes EXCEPT ![path[1]] =
             [@ EXCEPT !.hasChildren = TRUE,
                       !.children = AppendAt(@, Tail(path), n)]]

CountNodes(nodes) == Cardinality(NodePaths(nodes))

----------------------------------------------------------------------------
(* Values the registries are filled with *)

Rect(x, y, w, h) == [x |-> x, y |-> y, w |-> w, h |-> h]

Layer(id, name, type, coords, isVisible, hasChildren) ==
    [id |-> id, name |-> name, type |-> type, coords |-> coords,
     isVisible |-> isVisible, hasChildren |-> hasChildren, children |-> <<>>]

Payload(sourceNodeId, targetContainer, isPolished, w, h, layers) ==
    [sourceNodeId |-> sourceNodeId, targetContainer |-> targetContainer,
     isPolished |-> isPolished, metrics |-> [target |-> [w |-> w, h |-> h]],
     layers |-> layers]

Canvas(tag, width, height, readable) ==
    [tag |-> tag, width |-> width, height |-> height, readable |-> readable]

DocNode(id, name, canvas) ==
    [id |-> id, name |-> name, canvas |-> canvas,
     hasChildren |-> FALSE, children |-> <<>>]

Psd(children) == [hasChildren |-> TRUE, children |-> children]

\* originalName is optional: the empty sequence stands for none.
Container(name, originalName, x, y) ==
    [name |-> name, originalName |-> originalName,
     bounds |-> [x |-> x, y |-> y]]

Hero == <<"H", "e", "r", "o">>

heroLower == <<"h", "e", "r", "o">>

Side == <<"S", "i", "d", "e">>

----------------------------------------------------------------------------
(* Steps of the slot *)

\* The effects that run after a render of the component, on the values of
\* the next state.  Both effects are run after every step: re-running an
\* effect whose dependencies did not change gives the state it already
\* left, so this is the same as running the ones whose dependencies changed.
Effects ==
    LET dp == displayPayload(viewMode', inputEdge', reviewerRegistry',
                             payloadRegistry')
    IN /\ previewOut' = broadcastEffect(dp, previewOut)
       /\ localPreview' = compositorEffect(dp, psdRegistry', templateRegistry',
                                           autoFrame', localPreview)
       /\ previewSource' = compositorSource(dp, psdRegistry', templateRegistry',
                                            autoFrame', previewSource)

\* State after construction, registries aside.
Constructed ==
    /\ mounted = FALSE
    /\ viewMode = "PROCEDURAL"
    /\ autoFrame = TRUE
    /\ localPreview = Absent
    /\ previewOut = Absent
    /\ previewSource = Absent

Mount ==
    /\ ~mounted
    /\ mounted' = TRUE
    /\ UNCHANGED <<viewMode, autoFrame, inputEdge, payloadRegistry,
                   reviewerRegistry, psdRegistry, templateRegistry>>
    /\ Effects

ToggleAutoFrame ==
    /\ mounted
    /\ autoFrame' = ~autoFrame
    /\ UNCHANGED <<mounted, viewMode, inputEdge, payloadRegistry,
                   reviewerRegistry, psdRegistry, templateRegistry>>
    /\ Effects

\* The Raw button, and the Final button (disabled unless a polished payload
\* is available).
SetViewMode(mode) ==
    /\ mounted
    /\ mode = "POLISHED" => isPolishedAvailable(inputEdge, reviewerRegistry)
    /\ viewMode' = mode
    /\ viewMode' # viewMode
    /\ UNCHANGED <<mounted, autoFrame, inputEdge, payloadRegistry,
                   reviewerRegistry, psdRegistry, templateRegistry>>
    /\ Effects

\* Upstream publishes the payload with one more layer.
AddLayer(path, l) ==
    /\ mounted
    /\ Present(payloadRegistry)
    /\ CountNodes(payloadRegistry.layers) < MaxNodes
    /\ payloadRegistry' =
         [payloadRegistry EXCEPT !.layers = AppendAt(@, path, l)]
    /\ UNCHANGED <<mounted, viewMode, autoFrame, inputEdge, reviewerRegistry,
                   psdRegistry, templateRegistry>>
    /\ Effects

\* A source document is registered under a key that has none yet.
RegisterPsd(key, psd) ==
    /\ mounted
    /\ \A i \in 1..Len(psdRegistry) : psdRegistry[i].key # key
    /\ psdRegistry' = Append(psdRegistry, [key |-> key, psd |-> psd])
    /\ UNCHANGED <<mounted, viewMode, autoFrame, inputEdge, payloadRegistry,
                   reviewerRegistry, templateRegistry>>
    /\ Effects

\* The first registered source document gets one more node.
AddDocNode(path, n) ==
    /\ mounted
    /\ Len(psdRegistry) > 0
    /\ CountNodes(psdRegistry[1].psd.children) < MaxDocNodes
    /\ psdRegistry' =
         [psdRegistry EXCEPT ![1].psd.children = AppendAt(@, path, n)]
    /\ UNCHANGED <<mounted, viewMode, autoFrame, inputEdge, payloadRegistry,
                   reviewerRegistry, templateRegistry>>
    /\ Effects

\* A template without containers is registered.
RegisterTemplate ==
    /\ mounted
    /\ Len(templateRegistry) < MaxTemplates
    /\ templateRegistry' = Append(templateRegistry, [containers |-> <<>>])
    /\ UNCHANGED <<mounted, viewMode, autoFrame, inputEdge, payloadRegistry,
                   reviewerRegistry, psdRegistry>>
    /\ Effects

RECURSIVE CountContainers(_)
CountContainers(templates) ==
    IF templates = <<>> THEN 0
    ELSE Len(Head(templates).containers) + CountContainers(Tail(templates))

\* Template i gets one more container.
AddContainer(i, c) ==
    /\ mounted
    /\ i \in 1..Len(templateRegistry)
    /\ CountContainers(templateRegistry) < MaxContainers
    /\ templateRegistry' =
         [templateRegistry EXCEPT ![i].containers = Append(@, c)]
    /\ UNCHANGED <<mounted, viewMode, autoFrame, inputEdge, payloadRegistry,
                   reviewerRegistry, psdRegistry>>
    /\ Effects

\* Upstream publishes a payload on the input edge's handle, or withdraws it.
RegisterPayload(p) ==
    /\ mounted
    /\ payloadRegistry' = p
    /\ payloadRegistry' # payloadRegistry
    /\ UNCHANGED <<mounted, viewMode, autoFrame, inputEdge, reviewerRegistry,
                   psdRegistry, templateRegistry>>
    /\ Effects

\* The reviewer upstream publishes a payload on the input edge's handle, or
\* withdraws it.
RegisterUpstreamReviewerPayload(p) ==
    /\ mounted
    /\ reviewerRegistry' = p
    /\ reviewerRegistry' # reviewerRegistry
    /\ UNCHANGED <<mounted, viewMode, autoFrame, inputEdge, payloadRegistry,
                   psdRegistry, templateRegistry>>
    /\ Effects

\* The edge into payload-in-<index> is connected or removed.
SetInputEdge(edge) ==
    /\ mounted
    /\ inputEdge' = edge
    /\ inputEdge' # inputEdge
    /\ UNCHANGED <<mounted, viewMode, autoFrame, payloadRegistry,
                   reviewerRegistry, psdRegistry, templateRegistry>>
    /\ Effects

----------------------------------------------------------------------------
(* Values read off the current state *)

currentPayload ==
    displayPayload(viewMode, inputEdge, reviewerRegistry, payloadRegistry)

\* The slot has run its effects and the current payload passes the early
\* returns of the compositor: localPreview is set by that run.
Rendered == mounted /\ rendersSurface(currentPayload)

\* Nodes that are visible and have only visible ancestors.
VisiblePaths(layers) ==
    { p \in NodePaths(layers) :
        \A k \in 1..Len(p) : NodeAt(layers, SubSeq(p, 1, k)).isVisible }

Minimum(S) == CHOOSE m \in S : \A n \in S : m <= n

Maximum(S) == CHOOSE m \in S : \A n \in S : m >= n

----------------------------------------------------------------------------
(* Framing: layer trees that differ in coords, visibility and type *)

FrameLayers ==
    { Layer("L", "A", type, coords, isVisible, FALSE) :
        type \in {"raster", "generative"},
        coords \in {Rect(-1, 0, 2, 3), Rect(2, 1, 3, 1)},
        isVisible \in BOOLEAN }

InitFrame ==
    /\ Constructed
    /\ inputEdge = TRUE
    /\ reviewerRegistry = Absent
    /\ payloadRegistry = Payload("psd1", Hero, FALSE, 4, 3, <<>>)
    /\ psdRegistry = <<>>
    /\ templateRegistry \in
         { <<>>, <<[containers |-> <<Container(Hero, <<>>, 5, 7)>>]>> }

NextFrame ==
    \/ Mount
    \/ ToggleAutoFrame
    \/ \E path \in {<<>>} \cup NodePaths(payloadRegistry.layers) :
         \E l \in FrameLayers : AddLayer(path, l)

SpecFrame == InitFrame /\ [][NextFrame]_vars

\* C1: in auto-frame mode the camera origin is
\* (minX + (contentW - canvasW)/2, minY + (contentH - canvasH)/2) over the
\* bounding box of the coords of every visible node, and it is (0,0) when
\* the tree has no visible node, whatever the template registry and the
\* target container name are.
C1_AutoFrameOrigin ==
    Rendered /\ autoFrame =>
        LET layers == currentPayload.layers
            visible == { NodeAt(layers, p) : p \in VisiblePaths(layers) }
            canvasW == currentPayload.metrics.target.w
            canvasH == currentPayload.metrics.target.h
        IN IF visible = {}
           THEN localPreview.originX2 = 0 /\ localPreview.originY2 = 0
           ELSE LET minX == Minimum({ n.coords.x : n \in visible })
                    minY == Minimum({ n.coords.y : n \in visible })
                    maxX == Maximum({ n.coords.x + n.coords.w : n \in visible })
                    maxY == Maximum({ n.coords.y + n.coords.h : n \in visible })
                IN /\ localPreview.originX2 = 2 * minX + ((maxX - minX) - canvasW)
                   /\ localPreview.originY2 = 2 * minY + ((maxY - minY) - canvasH)

\* The part of C1 about a tree that has a visible node.
AutoFrameCentersContent ==
    Rendered /\ autoFrame /\ VisiblePaths(currentPayload.layers) # {}
        => C1_AutoFrameOrigin

\* An invisible node, with everything that could be changed about it and
\* its subtree changed to one fixed value.
BlankLayer == Layer("", "", "raster", Rect(0, 0, 0, 0), FALSE, FALSE)

RECURSIVE Neutralize(_)
Neutralize(layers) ==
    [i \in 1..Len(layers) |->
        IF layers[i].isVisible
        THEN [layers[i] EXCEPT !.children = Neutralize(@)]
        ELSE BlankLayer]

\* C4: an invisible node and every descendant of an invisible group
\* contribute nothing to the bounding-box scan and produce no draw call:
\* the preview (origin and sequence of paint operations) is the one of the
\* tree whose invisible nodes have other coords, type and children.
C4_InvisibleNodesInert ==
    Rendered =>
        localPreview =
            composite([currentPayload EXCEPT !.layers = Neutralize(@)],
                      psdRegistry, templateRegistry, autoFrame).image

\* An invisible group with a child next to a visible node has been rendered.
C4_Witness ==
    /\ Rendered
    /\ \E p \in NodePaths(currentPayload.layers) :
         LET n == NodeAt(currentPayload.layers, p)
         IN ~n.isVisible /\ Len(n.children) > 0
            /\ n.coords # BlankLayer.coords
    /\ VisiblePaths(currentPayload.layers) # {}

----------------------------------------------------------------------------
(* Paint order and leaves: layer trees that differ in identity, visibility
   and in carrying an empty children list *)

PaintLayers ==
    { Layer(id, "A", "raster", Rect(0, 0, 2, 2), isVisible, hasChildren) :
        id \in {"L1", "L2"}, isVisible \in BOOLEAN, hasChildren \in BOOLEAN }

InitPaint ==
    /\ Constructed
    /\ inputEdge = TRUE
    /\ reviewerRegistry = Absent
    /\ payloadRegistry = Payload("psd1", Hero, FALSE, 4, 3, <<>>)
    /\ psdRegistry = <<>>
    /\ templateRegistry = <<>>

NextPaint ==
    \/ Mount
    \/ ToggleAutoFrame
    \/ \E path \in {<<>>} \cup NodePaths(payloadRegistry.layers) :
         \E l \in PaintLayers : AddLayer(path, l)

SpecPaint == InitPaint /\ [][NextPaint]_vars

\* The nodes the traversal paints: visible, under visible ancestors, and
\* without a child.
PaintedPaths(layers) ==
    { p \in VisiblePaths(layers) : Len(NodeAt(layers, p).children) = 0 }

\* p is declared before q (document order; neither is a prefix of the other
\* when both are painted).
DeclaredBefore(p, q) ==
    \E k \in 1..Len(p) :
        /\ k <= Len(q)
        /\ p[k] < q[k]
        /\ \A j \in 1..(k - 1) : p[j] = q[j]

\* The number of painted nodes declared no later than p.
DeclaredRank(layers, p) ==
    Cardinality({ q \in PaintedPaths(layers) : DeclaredBefore(q, p) }) + 1

\* op is the paint operation of node n under the held preview's origin.
PaintsNode(op, n) ==
    /\ op.id = n.id
    /\ op.name = n.name
    /\ op.x2 = 2 * n.coords.x - localPreview.originX2
    /\ op.y2 = 2 * n.coords.y - localPreview.originY2
    /\ op.w = n.coords.w
    /\ op.h = n.coords.h

\* C3 (as claimed): siblings are walked back-to-front, so of two visible
\* leaves the earlier-declared one is painted later (on top); a group
\* paints nothing itself and its descendants are painted at its position.
C3_PaintsBackToFront ==
    Rendered =>
        LET layers == currentPayload.layers
            n == Cardinality(PaintedPaths(layers))
        IN /\ Len(localPreview.ops) = n
           /\ \A p \in PaintedPaths(layers) :
                PaintsNode(localPreview.ops[n + 1 - DeclaredRank(layers, p)],
                           NodeAt(layers, p))

\* C3 (amended): siblings are walked in stored order from the first to the
\* last, so of two visible leaves the earlier-declared one is painted
\* earlier and the later-declared one ends up on top; a group paints
\* nothing itself and its descendants are painted at its position.
C3_PaintsInStoredOrder ==
    Rendered =>
        LET layers == currentPayload.layers
        IN /\ Len(localPreview.ops) = Cardinality(PaintedPaths(layers))
           /\ \A p \in PaintedPaths(layers) :
                PaintsNode(localPreview.ops[DeclaredRank(layers, p)],
                           NodeAt(layers, p))

\* A visible group with a visible child, followed by a different visible
\* leaf, has been painted.
C3_Witness ==
    /\ Rendered
    /\ LET layers == currentPayload.layers
       IN /\ Len(layers) = 2
          /\ layers[1].isVisible /\ Len(layers[1].children) = 1
          /\ layers[1].children[1].isVisible
          /\ layers[2].isVisible /\ Len(layers[2].children) = 0
          /\ layers[2].id # layers[1].children[1].id
          /\ Len(localPreview.ops) = 2

\* The tree with every node visible.
RECURSIVE AllVisible(_)
AllVisible(layers) ==
    [i \in 1..Len(layers) |->
        [layers[i] EXCEPT !.isVisible = TRUE, !.children = AllVisible(@)]]

\* C9: the deep leaf count is the number of nodes whose children is absent
\* or empty, which are the nodes the paint traversal treats as leaves
\* (visibility aside); a node with an empty children list counts as one.
C9_LeafCountIsPaintLeaves ==
    mounted =>
        LET layers == currentPayload.layers
        IN /\ leafCount(currentPayload) =
                Cardinality({ p \in NodePaths(layers) :
                                Len(NodeAt(layers, p).children) = 0 })
           /\ leafCount(currentPayload) =
                Len(drawLayers(AllVisible(layers), Absent, 0, 0).ops)

----------------------------------------------------------------------------
(* Per-leaf outcomes: layer trees over documents that are missing, stale or
   matching, with buffers that are good, empty or unreadable *)

FaultLayers ==
    { Layer(k.id, k.name, k.type, Rect(0, 0, 2, 2), isVisible, FALSE) :
        k \in { [id |-> "p1", name |-> "A", type |-> "generative"],
                [id |-> "p1", name |-> "A", type |-> "raster"],
                [id |-> "p2", name |-> "B", type |-> "raster"] },
        isVisible \in BOOLEAN }

\* p1 has a good buffer, p2 one that drawImage cannot read.
DocStale ==
    Psd(<<DocNode("p1", "A", Canvas("c1", 2, 2, TRUE)),
          DocNode("p2", "B", Canvas("c2", 2, 2, FALSE))>>)

\* p1 has a zero-sized buffer, p2 is not in the document.
DocMatching == Psd(<<DocNode("p1", "A", Canvas("c3", 0, 0, TRUE))>>)

FaultDocs ==
    { [key |-> "psd2", psd |-> DocStale], [key |-> "psd1", psd |-> DocMatching] }

InitFault ==
    /\ Constructed
    /\ inputEdge = TRUE
    /\ reviewerRegistry = Absent
    /\ payloadRegistry = Payload("psd1", Hero, FALSE, 4, 3, <<>>)
    /\ psdRegistry = <<>>
    /\ templateRegistry = <<>>

NextFault ==
    \/ Mount
    \/ \E e \in FaultDocs : RegisterPsd(e.key, e.psd)
    \/ \E path \in {<<>>} \cup NodePaths(payloadRegistry.layers) :
         \E l \in FaultLayers : AddLayer(path, l)

SpecFault == InitFault /\ [][NextFault]_vars

Outcomes ==
    {"placeholder", "drawn", "empty-source", "draw-fault", "missing-pixels",
     "missing-source"}

\* C6: no failure aborts a render: whatever the layer tree, the document
\* availability and the leaves whose draw throws, every visible leaf under
\* visible ancestors is visited exactly once and gets exactly one of the six
\* outcomes, the leaves after a failing one are still painted, the render
\* ends with an artifact of the current payload, and the outcome of a leaf
\* is the one it gets when it is painted alone.
C6_NoFailureAbortsRender ==
    Rendered =>
        LET layers == currentPayload.layers
            sourcePsd == sourcePsdOf(psdRegistry, currentPayload)
        IN /\ Present(localPreview)
           /\ previewSource = currentPayload
           /\ Len(localPreview.ops) = Cardinality(PaintedPaths(layers))
           /\ \A p \in PaintedPaths(layers) :
                LET n == NodeAt(layers, p)
                    op == localPreview.ops[DeclaredRank(layers, p)]
                    alone == drawLayers(<<n>>, sourcePsd, localPreview.originX2,
                                        localPreview.originY2)
                IN /\ PaintsNode(op, n)
                   /\ op.outcome \in Outcomes
                   /\ ~alone.thrown /\ alone.ops = <<op>>
                   /\ n.type = "generative" <=> op.outcome = "placeholder"
                   /\ n.type # "generative" /\ psdRegistry = <<>>
                        <=> op.outcome = "missing-source"

\* A leaf whose draw threw was painted as a draw fault and a leaf after it
\* was drawn, with the stale document standing in for the missing one.
C6_Witness ==
    /\ Rendered
    /\ psdRegistry # <<>> /\ psdRegistry[1].key # currentPayload.sourceNodeId
    /\ \E i, j \in 1..Len(localPreview.ops) :
         /\ i < j
         /\ localPreview.ops[i].outcome = "draw-fault"
         /\ localPreview.ops[j].outcome = "drawn"

----------------------------------------------------------------------------
(* Layer resolution: one raster leaf over document trees that differ in the
   identifiers, names and buffers of their nodes *)

ResolveDocNodes ==
    { DocNode(id, name, canvas) :
        id \in {"p1", "p2"}, name \in {"A", "B"},
        canvas \in {Absent, Canvas("c1", 2, 2, TRUE), Canvas("c2", 2, 2, TRUE)} }

ResolveLeaves ==
    { Layer("p1", "A", "raster", Rect(0, 0, 2, 2), TRUE, FALSE),
      Layer("zz", "A", "raster", Rect(0, 0, 2, 2), TRUE, FALSE),
      Layer("zz", "Z", "raster", Rect(0, 0, 2, 2), TRUE, FALSE) }

InitResolve ==
    /\ Constructed
    /\ inputEdge = TRUE
    /\ reviewerRegistry = Absent
    /\ \E leaf \in ResolveLeaves :
         payloadRegistry = Payload("psd1", Hero, FALSE, 4, 3, <<leaf>>)
    /\ psdRegistry = <<[key |-> "psd1", psd |-> Psd(<<>>)]>>
    /\ templateRegistry = <<>>

NextResolve ==
    \/ Mount
    \/ \E path \in {<<>>} \cup NodePaths(psdRegistry[1].psd.children) :
         \E n \in ResolveDocNodes : AddDocNode(path, n)

SpecResolve == InitResolve /\ [][NextResolve]_vars

\* p comes before q in a pre-order walk of the tree.
PreOrderBefore(p, q) ==
    \/ Len(p) < Len(q) /\ SubSeq(q, 1, Len(p)) = p
    \/ DeclaredBefore(p, q)

FirstInPreOrder(paths) ==
    CHOOSE p \in paths : \A q \in paths \ {p} : PreOrderBefore(p, q)

\* The nodes of the available document with a given name.
DocPathsWithName(psd, name) ==
    { q \in NodePaths(psd.children) : NodeAt(psd.children, q).name = name }

\* C5 (as claimed): a visible raster leaf over an available document, whose
\* identifier the path lookup does not find but whose name is the name of
\* a document node, is rendered from a name-matched node's pixel buffer
\* and not as a missing-pixels diagnostic.
C5_NameMatchRendersBuffer ==
    Rendered =>
        LET layers == currentPayload.layers
            psd == sourcePsdOf(psdRegistry, currentPayload)
        IN \A p \in PaintedPaths(layers) :
             LET leaf == NodeAt(layers, p)
                 op == localPreview.ops[DeclaredRank(layers, p)]
             IN /\ leaf.type = "raster"
                /\ Present(psd)
                /\ ~Present(findLayerByPath(psd, leaf.id))
                /\ DocPathsWithName(psd, leaf.name) # {}
                => /\ op.outcome # "missing-pixels"
                   /\ \E q \in DocPathsWithName(psd, leaf.name) :
                        op.canvas = NodeAt(psd.children, q).canvas

\* C5 (amended): the chain is path lookup, then recursive name search, and
\* the first node found wins: the leaf resolves to the node the path lookup
\* finds, else to the first node in pre-order with the leaf's name.  It is
\* rendered from that node's pixel buffer when the node carries one, and as
\* a missing-pixels diagnostic when the node carries none or no node is
\* found.
C5_FirstMatchDecides ==
    Rendered =>
        LET layers == currentPayload.layers
            psd == sourcePsdOf(psdRegistry, currentPayload)
        IN \A p \in PaintedPaths(layers) :
             LET leaf == NodeAt(layers, p)
                 op == localPreview.ops[DeclaredRank(layers, p)]
                 byPath == findLayerByPath(psd, leaf.id)
                 byName == DocPathsWithName(psd, leaf.name)
                 node == IF Present(byPath) THEN byPath
                         ELSE IF byName # {}
                         THEN NodeAt(psd.children, FirstInPreOrder(byName))
                         ELSE Absent
             IN leaf.type = "raster" /\ Present(psd) =>
                  IF Present(node) /\ Present(node.canvas)
                  THEN /\ op.canvas = node.canvas
                       /\ op.outcome \in {"drawn", "empty-source", "draw-fault"}
                  ELSE op.outcome = "missing-pixels"

\* The path lookup does not find the leaf's identifier, the first node with
\* the leaf's name is a nested one with a buffer, and the leaf was drawn
\* from it.
C5_Witness ==
    /\ Rendered
    /\ LET leaf == currentPayload.layers[1]
           psd == sourcePsdOf(psdRegistry, currentPayload)
       IN /\ ~Present(findLayerByPath(psd, leaf.id))
          /\ DocPathsWithName(psd, leaf.name) # {}
          /\ Len(FirstInPreOrder(DocPathsWithName(psd, leaf.name))) = 2
          /\ localPreview.ops[1].outcome = "drawn"
          /\ localPreview.ops[1].canvas =
               NodeAt(psd.children,
                      FirstInPreOrder(DocPathsWithName(psd, leaf.name))).canvas

----------------------------------------------------------------------------
(* Strict framing: template registries that differ in the names, original
   names and bounds of their containers *)

TemplateContainers ==
    { Container(Hero, <<>>, 5, 7),
      Container(heroLower, <<>>, 1, 2),
      Container(Side, Hero, 3, 4),
      Container(Side, <<>>, 6, 8) }

InitTemplates ==
    /\ Constructed
    /\ inputEdge = TRUE
    /\ reviewerRegistry = Absent
    /\ \E target \in {Hero, Side} :
         payloadRegistry =
             Payload("psd1", target, FALSE, 4, 3,
                     <<Layer("L", "A", "raster", Rect(0, 0, 2, 2), TRUE, FALSE)>>)
    /\ psdRegistry = <<>>
    /\ templateRegistry = <<>>

NextTemplates ==
    \/ Mount
    \/ ToggleAutoFrame
    \/ RegisterTemplate
    \/ \E i \in 1..Len(templateRegistry) :
         \E c \in TemplateContainers : AddContainer(i, c)

SpecTemplates == InitTemplates /\ [][NextTemplates]_vars

\* The places <<template, container>> of the registry, and the first of a
\* set of places in registration order.
ContainerPlaces ==
    { pl \in (1..Len(templateRegistry)) \X (1..MaxContainers) :
        pl[2] <= Len(templateRegistry[pl[1]].containers) }

ContainerAt(pl) == templateRegistry[pl[1]].containers[pl[2]]

FirstPlace(places) ==
    CHOOSE pl \in places :
        \A other \in places :
            \/ pl[1] < other[1]
            \/ pl[1] = other[1] /\ pl[2] <= other[2]

\* The held preview's origin is the bounds of the container at the first
\* of the places, or (0,0) when there is no place.
OriginIsFirstOf(places) ==
    IF places = {}
    THEN localPreview.originX2 = 0 /\ localPreview.originY2 = 0
    ELSE LET c == ContainerAt(FirstPlace(places))
         IN /\ localPreview.originX2 = 2 * c.bounds.x
            /\ localPreview.originY2 = 2 * c.bounds.y

\* Two characters that differ at most in case.
SameLetter(a, b) ==
    \/ a = b
    \/ {a, b} \in { {"H", "h"}, {"E", "e"}, {"R", "r"}, {"O", "o"},
                    {"S", "s"}, {"I", "i"}, {"D", "d"} }

SameIgnoringCase(s, t) ==
    /\ Len(s) = Len(t)
    /\ \A k \in 1..Len(s) : SameLetter(s[k], t[k])

\* C2 (as claimed): in strict mode the origin is the declared bounds of the
\* first container, in registration order, whose name or originalName is
\* exactly the payload's target container name; (0,0) when there is none.
C2_StrictOriginExactOrOriginalName ==
    Rendered /\ ~autoFrame =>
        OriginIsFirstOf(
            { pl \in ContainerPlaces :
                \/ ContainerAt(pl).name = currentPayload.targetContainer
                \/ ContainerAt(pl).originalName = currentPayload.targetContainer })

\* C2 (amended): in strict mode the origin is the declared bounds of the
\* first container, in registration order, whose name equals the payload's
\* target container name ignoring case (originalName is not consulted);
\* (0,0) when there is none.
C2_StrictOriginIgnoringCase ==
    Rendered /\ ~autoFrame =>
        OriginIsFirstOf(
            { pl \in ContainerPlaces :
                SameIgnoringCase(ContainerAt(pl).name,
                                 currentPayload.targetContainer) })

\* Strict mode has taken the origin from the second template, whose second
\* container is the first whose name matches, and matches only when case is
\* ignored.
C2_Witness ==
    /\ Rendered /\ ~autoFrame
    /\ currentPayload.targetContainer = Hero
    /\ Len(templateRegistry) = 2
    /\ Len(templateRegistry[1].containers) = 1
    /\ templateRegistry[1].containers[1].originalName = Hero
    /\ Len(templateRegistry[2].containers) = 2
    /\ templateRegistry[2].containers[1].name = Side
    /\ templateRegistry[2].containers[2].name = heroLower
    /\ localPreview.originX2 = 2 /\ localPreview.originY2 = 4

----------------------------------------------------------------------------
(* The slot over time: payloads come and go, the view controls are used *)

LeafA == Layer("p1", "A", "raster", Rect(0, 0, 2, 2), TRUE, FALSE)

LeafB == Layer("p2", "B", "generative", Rect(1, 1, 2, 1), TRUE, FALSE)

RawPayloads ==
    { Payload("psd1", Hero, FALSE, 4, 3, <<LeafA>>),
      Payload("psd1", Hero, FALSE, 0, 3, <<LeafA>>),
      Payload("psd1", Side, FALSE, 4, 0, <<LeafB>>) }

ReviewerPayloads ==
    { Payload("psd1", Hero, TRUE, 4, 3, <<LeafA, LeafB>>),
      Payload("psd1", Hero, FALSE, 4, 3, <<LeafB>>),
      Payload(EdgeSource, Hero, TRUE, 0, 0, <<LeafA>>) }

Init ==
    /\ Constructed
    /\ inputEdge \in BOOLEAN
    /\ payloadRegistry \in RawPayloads \cup {Absent}
    /\ reviewerRegistry \in ReviewerPayloads \cup {Absent}
    /\ psdRegistry = <<>>
    /\ templateRegistry \in
         { <<>>, <<[containers |-> <<Container(Hero, <<>>, 5, 7)>>]>> }

Next ==
    \/ Mount
    \/ ToggleAutoFrame
    \/ \E mode \in {"PROCEDURAL", "POLISHED"} : SetViewMode(mode)
    \/ \E p \in RawPayloads \cup {Absent} : RegisterPayload(p)
    \/ \E p \in ReviewerPayloads \cup {Absent} :
         RegisterUpstreamReviewerPayload(p)
    \/ \E edge \in BOOLEAN : SetInputEdge(edge)
    \/ RegisterPsd("psd1", DocStale)

Spec == Init /\ [][Next]_vars

ZeroArea(dp) ==
    Present(dp) /\ (dp.metrics.target.w = 0 \/ dp.metrics.target.h = 0)

\* C7: a render of a payload whose metrics.target.w or metrics.target.h is
\* 0 produces no artifact: the step that runs the compositor on such a
\* payload leaves the preview image, and what it was rendered from, as
\* they were.
C7_ZeroAreaRendersNothing ==
    [][ZeroArea(displayPayload(viewMode', inputEdge', reviewerRegistry',
                               payloadRegistry'))
         => /\ localPreview' = localPreview
            /\ previewSource' = previewSource]_vars

\* The compositor has run on a zero-area payload while an earlier preview
\* is held.
C7_Witness ==
    /\ mounted
    /\ ZeroArea(currentPayload)
    /\ previewOut = currentPayload
    /\ Present(localPreview)
    /\ previewSource # currentPayload

\* C8: the payload registered under preview-out-<index> is the payload the
\* held preview artifact was rendered from.
C8_BroadcastIsRendered ==
    mounted /\ Present(previewOut) =>
        Present(localPreview) /\ previewSource = previewOut

\* C10: the render input does not depend on the Raw/Final toggle: it is the
\* reviewer payload whenever the input edge has one (polished or not), and
\* the raw payload only when it has none; with a render input present, that
\* is the payload the effects have broadcast.
C10_DisplayPayloadIgnoresViewMode ==
    mounted =>
        LET expected == IF inputEdge /\ Present(reviewerRegistry)
                        THEN reviewerRegistry
                        ELSE IF inputEdge THEN payloadRegistry ELSE Absent
        IN /\ currentPayload = expected
           /\ \A mode \in {"PROCEDURAL", "POLISHED"} :
                displayPayload(mode, inputEdge, reviewerRegistry,
                               payloadRegistry) = expected
           /\ Present(expected) => previewOut = expected

\* Raw is selected while a polished reviewer payload and a different raw
\* payload are both there, and the reviewer payload is the one broadcast.
C10_Witness ==
    /\ mounted
    /\ viewMode = "PROCEDURAL"
    /\ inputEdge
    /\ Present(reviewerRegistry) /\ reviewerRegistry.isPolished
    /\ Present(payloadRegistry) /\ payloadRegistry # reviewerRegistry
    /\ previewOut = reviewerRegistry

\* C11: after any sequence of input changes the preview the slot holds is
\* the render of its current inputs: it is the composite of the current
\* payload, registries and framing mode when they yield a render, and no
\* artifact of earlier inputs is held when they yield none.
C11_PreviewIsOfCurrentInputs ==
    mounted =>
        IF rendersSurface(currentPayload)
        THEN /\ localPreview = composite(currentPayload, psdRegistry,
                                         templateRegistry, autoFrame).image
             /\ previewSource = currentPayload
        ELSE localPreview = Absent

====
